---- MODULE Spec2Model ----
(***************************************************************************)
(* A model of visually-script (src/visually-script/visually-script.ts):    *)
(* the Slide builder, the Presentation aggregate and the identifier        *)
(* generator.                                                              *)
(*                                                                         *)
(* JavaScript values are modelled as follows.                              *)
(*   - a string is a TLA+ string; a number is an integer;                  *)
(*   - an array is a sequence;                                             *)
(*   - an object is a function from its keys (strings) to values; a key    *)
(*     whose value is undefined is modelled as an absent key (a property   *)
(*     read gives undefined either way and JSON.stringify omits it);       *)
(*   - a CSV cell, the one place where a number and a string share a       *)
(*     position, is tagged with its typeof: <<"number", n>> or             *)
(*     <<"string", s>>;                                                    *)
(*   - a Slide's private slide object lives in the heap `slides`; a        *)
(*     reference to it is [ref |-> h], h its index in the heap.            *)
(***************************************************************************)
EXTENDS Integers, Sequences, FiniteSets, TLC

VARIABLES
    now,         \* Date.now(): the clock read by generateId
    slides,      \* heap of the slide objects held by the Slide instances
    mediaQueue,  \* Presentation.mediaQueue
    sources,     \* Presentation.sources
    console,     \* the messages passed to console.warn, in order
    issued,      \* generator harness (SpecId): the generateId calls so far
    returned     \* the document the last toJSON() call returned, parsed; <<>> before it

vars == <<now, slides, mediaQueue, sources, console, issued, returned>>

-----------------------------------------------------------------------------
(* Bounds of the model.                                                    *)

MaxClock == 36     \* the clock runs from 35 to MaxClock
MaxBuilt == 4      \* slides, slide elements, queue entries, sources and warnings built in a run
MaxObjects == 3    \* the same, in a run of SpecYouTube, SpecCsv or SpecSlide
MaxScript == 2     \* the same, in a run of Spec, which uses every operation
MaxIssued == 3     \* generateId calls logged by the generator harness

\* the number of elements of the slides h..Len(slides)
RECURSIVE ElementCount(_)
ElementCount(h) ==
    IF h > Len(slides) THEN 0 ELSE Len(slides[h].elements) + ElementCount(h + 1)

Objects == Len(slides) + ElementCount(1) + Len(mediaQueue) + Len(sources) + Len(console)

\* the run may build one more object
Room == Objects < MaxBuilt

\* a run of SpecYouTube, SpecCsv or SpecSlide may build one more object
FocusRoom == Objects < MaxObjects

-----------------------------------------------------------------------------
(* Strings.                                                                *)

Min(a, b) == IF a < b THEN a ELSE b

\* s.charAt(i - 1): the i-th character, "" out of range
CharAt(s, i) == IF i >= 1 /\ i <= Len(s) THEN SubSeq(s, i, i) ELSE ""

\* s.substr(start, length), start counted from 0
Substr(s, start, length) == SubSeq(s, start + 1, Min(Len(s), start + length))

\* whether s holds the text t at position i (1-based)
StartsWithAt(s, i, t) == i + Len(t) - 1 <= Len(s) /\ SubSeq(s, i, i + Len(t) - 1) = t

\* whether the one-character string c occurs in the string set
CharIn(c, set) == Len(c) = 1 /\ \E k \in 1..Len(set) : SubSeq(set, k, k) = c

Base36Digits == "0123456789abcdefghijklmnopqrstuvwxyz"

\* (n).toString(36) for an integer n >= 0
RECURSIVE ToString36(_)
ToString36(n) ==
    IF n < 36 THEN CharAt(Base36Digits, n + 1)
    ELSE ToString36(n \div 36) \o CharAt(Base36Digits, (n % 36) + 1)

-----------------------------------------------------------------------------
(* Objects.                                                                *)

\* { ...a, ...b }
Spread(a, b) == [k \in (DOMAIN a) \cup (DOMAIN b) |-> IF k \in DOMAIN b THEN b[k] ELSE a[k]]

\* the object holding the keys of a that are in keys
Pick(a, keys) == [k \in (DOMAIN a) \cap keys |-> a[k]]

\* the empty object {}
EmptyObject == [k \in {} |-> 0]

Has(a, k) == k \in DOMAIN a

-----------------------------------------------------------------------------
(* The identifier generator.                                               *)

\* generateId, reading the clock as t and Math.random().toString(36) as r
\* (r is "0." followed by the base-36 digits of the fraction, or "0")
GenerateId_NoRandom(t, r) == ToString36(t) \o "-"
GenerateId_NoClock(t, r) == "-" \o Substr(r, 2, 9)
GenerateIdText(t, r) == ToString36(t) \o "-" \o Substr(r, 2, 9)

\* Values of Math.random().toString(36); the first two agree on their first nine
\* digits, the last is the value for Math.random() = 0
RandomTexts == {"0.4fzyo82mvyr", "0.4fzyo82mvzz", "0.k3", "0"}

\* generateId over the clock readings and the random values of the model, computed once
GenerateIdTable == [t \in 35..MaxClock |-> [r \in RandomTexts |-> GenerateIdText(t, r)]]
GenerateId(t, r) == GenerateIdTable[t][r]

-----------------------------------------------------------------------------
(* class Slide.                                                            *)

\* constructor(title, backgroundColor = '#FFFFFF')
SlideObject(args, id) ==
    [id |-> id,
     title |-> args.title,
     backgroundColor |-> IF Has(args, "backgroundColor") THEN args.backgroundColor ELSE "#FFFFFF",
     elements |-> <<>>,
     borderStyle |-> "none"]

NewSlide(args, r) ==
    /\ Room
    /\ slides' = Append(slides, SlideObject(args, GenerateId(now, r)))
    /\ UNCHANGED <<now, mediaQueue, sources, console, issued, returned>>

\* this.slide.elements.push(element)
addElement_Front(h, element) ==
    /\ h \in 1..Len(slides)
    /\ Room
    /\ slides' = [slides EXCEPT ![h].elements = <<element>> \o @]
    /\ UNCHANGED <<mediaQueue, sources, console, issued, returned>>
addElement(h, element) ==
    /\ h \in 1..Len(slides)
    /\ Room
    /\ slides' = [slides EXCEPT ![h].elements = Append(@, element)]
    /\ UNCHANGED <<mediaQueue, sources, console, issued, returned>>

TextDefaults ==
    [content |-> "New Text", x |-> 10, y |-> 10, width |-> 300, height |-> 50,
     fontSize |-> 24, color |-> "#000000", fontFamily |-> "Alegreya", animation |-> "none"]

ImageDefaults ==
    [src |-> "https://placehold.co/300x200.png", x |-> 10, y |-> 10, width |-> 300, height |-> 200]

MathDefaults ==
    [content |-> "E = mc^2", x |-> 10, y |-> 10, width |-> 200, height |-> 60,
     fontSize |-> 24, color |-> "#000000"]

ShapeDefaults ==
    [shape |-> "rectangle", x |-> 10, y |-> 10, width |-> 150, height |-> 100,
     strokeColor |-> "#000000", strokeWidth |-> 2, fillColor |-> "transparent"]

\* the defaults of addCharacter; actionId is the identifier generated for the default action
CharacterDefaults(actionId) ==
    [character |-> "char1", x |-> 50, y |-> 350, width |-> 150, height |-> 200,
     actions |-> <<[id |-> actionId, type |-> "text", text |-> "Hello!"]>>]

\* { ...defaults, ...props, id: generateId(), type }
MergeElement_PropsLast(defaults, props, id, type) ==
    Spread(Spread(defaults, [id |-> id, type |-> type]), props)
MergeElement_DefaultsLast(defaults, props, id, type) ==
    Spread(Spread(props, defaults), [id |-> id, type |-> type])
MergeElement(defaults, props, id, type) ==
    Spread(Spread(defaults, props), [id |-> id, type |-> type])

addText(h, props, r) ==
    /\ addElement(h, MergeElement(TextDefaults, props, GenerateId(now, r), "text"))
    /\ UNCHANGED now

Slide_addImage(h, props, r) ==
    /\ addElement(h, MergeElement(ImageDefaults, props, GenerateId(now, r), "image"))
    /\ UNCHANGED now

\* const { content, x, y, size = 100, rotation = 0 } = props
StickerElement(props, id) ==
    LET size == IF Has(props, "size") THEN props.size ELSE 100
        rotation == IF Has(props, "rotation") THEN props.rotation ELSE 0
    IN  Spread(Pick(props, {"content", "x", "y"}),
               [id |-> id, type |-> "sticker",
                width |-> size, height |-> size, fontSize |-> size,
                rotation |-> rotation])

addSticker(h, props, r) ==
    /\ addElement(h, StickerElement(props, GenerateId(now, r)))
    /\ UNCHANGED now

addMath(h, props, r) ==
    /\ addElement(h, MergeElement(MathDefaults, props, GenerateId(now, r), "math"))
    /\ UNCHANGED now

addShape(h, props, r) ==
    /\ addElement(h, MergeElement(ShapeDefaults, props, GenerateId(now, r), "shape"))
    /\ UNCHANGED now

\* Two generateId calls: the default action's, then the element's; the clock may
\* advance by d between them.
addCharacter(h, props, r1, r2, d) ==
    /\ now + d <= MaxClock
    /\ addElement(h, MergeElement(CharacterDefaults(GenerateId(now, r1)), props,
                                  GenerateId(now + d, r2), "gamification"))
    /\ now' = now + d

setBackgroundColor(h, color) ==
    /\ h \in 1..Len(slides)
    /\ slides' = [slides EXCEPT ![h] = Spread(@, [backgroundColor |-> color])]
    /\ UNCHANGED <<now, mediaQueue, sources, console, issued, returned>>

setBackgroundImageUrl(h, url) ==
    /\ h \in 1..Len(slides)
    /\ slides' = [slides EXCEPT ![h] = Spread(@, [backgroundImageUrl |-> url])]
    /\ UNCHANGED <<now, mediaQueue, sources, console, issued, returned>>

\* if (props.color) ...; if (props.width) ...: '' and 0 are falsy
BorderUpdate_Defaulted(props) ==
    [borderStyle |-> props.style,
     borderColor |-> IF Has(props, "color") THEN props.color ELSE "#000000",
     borderWidth |-> IF Has(props, "width") THEN props.width ELSE 1]
BorderUpdate(props) ==
    Spread(Spread([borderStyle |-> props.style],
                  IF Has(props, "color") /\ props.color # ""
                  THEN [borderColor |-> props.color] ELSE EmptyObject),
           IF Has(props, "width") /\ props.width # 0
           THEN [borderWidth |-> props.width] ELSE EmptyObject)

setBorder(h, props) ==
    /\ h \in 1..Len(slides)
    /\ slides' = [slides EXCEPT ![h] = Spread(@, BorderUpdate(props))]
    /\ UNCHANGED <<now, mediaQueue, sources, console, issued, returned>>

\* getSlideObject(): the reference to the instance's own slide object, not a copy
getSlideObject(h) == [ref |-> h]

\* the clock advances
Tick ==
    /\ now < MaxClock
    /\ now' = now + 1
    /\ UNCHANGED <<slides, mediaQueue, sources, console, issued, returned>>

-----------------------------------------------------------------------------
(* class Presentation.                                                     *)

\* { ...item, id: generateId(), transition: item.transition || 'fade' }
MediaItem_KeepsCallerId(item, id) ==
    Spread([id |-> id,
            transition |-> IF Has(item, "transition") /\ item.transition # ""
                           THEN item.transition ELSE "fade"],
           item)
MediaItem(item, id) ==
    Spread(item,
           [id |-> id,
            transition |-> IF Has(item, "transition") /\ item.transition # ""
                           THEN item.transition ELSE "fade"])

\* this.mediaQueue.push(...)
Push_Front(queue, item) == <<item>> \o queue
Push(queue, item) == Append(queue, item)

\* the body of addMediaItem, reading the clock as t
addMediaItemAt(item, t, r) ==
    /\ Room
    /\ mediaQueue' = Push(mediaQueue, MediaItem(item, GenerateId(t, r)))
    /\ UNCHANGED <<slides, sources, console, issued, returned>>

addMediaItem(item, r) ==
    /\ addMediaItemAt(item, now, r)
    /\ UNCHANGED now

\* console.warn(message)
warn(message) ==
    /\ Room
    /\ console' = Append(console, message)
    /\ UNCHANGED <<now, slides, mediaQueue, sources, issued, returned>>

addPdf(props, r) == addMediaItem(Spread([type |-> "pdf", currentPage |-> 1], props), r)

Presentation_addImage(props, r) == addMediaItem(Spread([type |-> "image"], props), r)

\* [a-zA-Z0-9_-]
IdChars == "abcdefghijklmnopqrstuvwxyzABCDEFGHIJKLMNOPQRSTUVWXYZ0123456789_-"

\* ([a-zA-Z0-9_-]{11}) matches at position m
IdLength == 11
IsIdRun_TenCharacters(url, m) ==
    /\ m + 9 <= Len(url)
    /\ \A k \in m..(m + 9) : CharIn(CharAt(url, k), IdChars)
IsIdRun(url, m) ==
    /\ m + IdLength - 1 <= Len(url)
    /\ \A k \in m..(m + IdLength - 1) : CharIn(CharAt(url, k), IdChars)

\* (?:https?:\/\/)? from position i: the positions where the rest may go on
AfterScheme(url, i) ==
    {i} \cup (IF StartsWithAt(url, i, "http://") THEN {i + 7} ELSE {})
        \cup (IF StartsWithAt(url, i, "https://") THEN {i + 8} ELSE {})

\* (?:www\.)?
AfterWww(url, j) == {j} \cup (IF StartsWithAt(url, j, "www.") THEN {j + 4} ELSE {})

\* (?:youtube\.com\/(?:watch\?v=|embed\/|v\/)|youtu\.be\/)
AfterHost(url, k) ==
    (IF StartsWithAt(url, k, "youtube.com/watch?v=") THEN {k + 20} ELSE {})
        \cup (IF StartsWithAt(url, k, "youtube.com/embed/") THEN {k + 18} ELSE {})
        \cup (IF StartsWithAt(url, k, "youtube.com/v/") THEN {k + 14} ELSE {})
        \cup (IF StartsWithAt(url, k, "youtu.be/") THEN {k + 9} ELSE {})

\* the positions where group 1 may start in a match of youtubeRegex that starts at i
GroupStarts(url, i) ==
    {m \in UNION {AfterHost(url, k) : k \in UNION {AfterWww(url, j) : j \in AfterScheme(url, i)}} :
        IsIdRun(url, m)}

\* url.match(youtubeRegex): the leftmost start that matches, its optional groups
\* taken greedily (the furthest group start); <<>> stands for null, else <<match[1]>>
Match_Rightmost(url) ==
    LET starts == {i \in 1..Len(url) : GroupStarts(url, i) # {}}
    IN  IF starts = {} THEN <<>>
        ELSE LET i == CHOOSE i \in starts : \A i2 \in starts : i >= i2
                 m == CHOOSE m \in GroupStarts(url, i) : \A m2 \in GroupStarts(url, i) : m2 <= m
             IN  <<SubSeq(url, m, m + IdLength - 1)>>
Match(url) ==
    LET starts == {i \in 1..Len(url) : GroupStarts(url, i) # {}}
    IN  IF starts = {} THEN <<>>
        ELSE LET i == CHOOSE i \in starts : \A i2 \in starts : i <= i2
                 m == CHOOSE m \in GroupStarts(url, i) : \A m2 \in GroupStarts(url, i) : m2 <= m
             IN  <<SubSeq(url, m, m + IdLength - 1)>>

\* getYouTubeEmbedUrl(url); the result null is modelled as "", which the caller's
\* if (embedUrl) treats as it treats null
getYouTubeEmbedUrl(url) ==
    LET match == Match(url)
    IN  IF match # <<>> /\ match[1] # ""
        THEN "https://www.youtube-nocookie.com/embed/" \o match[1]
        ELSE ""

\* The urls given to addYouTube in the model.
YouTubeInputs ==
    <<[name |-> "Rick", url |-> "https://www.youtube.com/watch?v=dQw4w9WgXcQ"],
      [name |-> "Next.js Conf", url |-> "https://www.youtube.com/watch?v=k_x21-J2d-I",
       notes |-> "keynote", transition |-> "zoom"],
      [name |-> "Embed", url |-> "http://youtube.com/embed/dQw4w9WgXcQ?start=3"],
      [name |-> "Old", url |-> "www.youtube.com/v/dQw4w9WgXcQ_extra"],
      [name |-> "Short", url |-> "youtu.be/k_x21-J2d-I"],
      [name |-> "Two", url |-> "see youtu.be/AAAAAAAAAAA or https://youtube.com/embed/BBBBBBBBBBB"],
      [name |-> "None", url |-> "not-a-url"],
      [name |-> "Ten", url |-> "https://youtu.be/dQw4w9WgXc?t=1"],
      [name |-> "Other host", url |-> "https://vimeo.com/watch?v=dQw4w9WgXcQ"],
      [name |-> "Playlist", url |-> "https://www.youtube.com/playlist?list=PL0123456789", notes |-> "list"],
      [name |-> "Empty", url |-> ""]>>

YouTubeUrls == {YouTubeInputs[i].url : i \in 1..Len(YouTubeInputs)}

\* getYouTubeEmbedUrl on the urls of the model, evaluated once
EmbedUrlOf == [url \in YouTubeUrls |-> getYouTubeEmbedUrl(url)]

addYouTube(props, r) ==
    LET embedUrl == EmbedUrlOf[props.url]
    IN  IF embedUrl # ""
        THEN addMediaItem(Spread([type |-> "youtube", embedUrl |-> embedUrl], props), r)
        ELSE warn("Invalid YouTube URL provided, skipping: " \o props.url)

addVideo(props, r) ==
    addMediaItem(Spread([type |-> "video", startTime |-> 0, timestamps |-> <<>>], props), r)

addOfficeFile(props, r) == addMediaItem(Spread([type |-> "office"], props), r)

addUrl(props, r) == addMediaItem(Spread([type |-> "url"], props), r)

addSlide(h, r) ==
    /\ h \in 1..Len(slides)
    /\ addMediaItem([type |-> "created-slide",
                     name |-> slides[h].title,
                     slide |-> getSlideObject(h)], r)

addSource_AlsoQueued(source, r) ==
    /\ Room
    /\ sources' = Append(sources, Spread(source, [id |-> GenerateId(now, r)]))
    /\ mediaQueue' = Append(mediaQueue, Spread(source, [id |-> GenerateId(now, r)]))
    /\ UNCHANGED <<now, slides, console, issued, returned>>
addSource(source, r) ==
    /\ Room
    /\ sources' = Append(sources, Spread(source, [id |-> GenerateId(now, r)]))
    /\ UNCHANGED <<now, slides, mediaQueue, console, issued, returned>>

\* Two generateId calls: the quiz's, then the item's; the clock may advance by d
\* between them.
addQuiz(quizData, r1, r2, d) ==
    /\ now + d <= MaxClock
    /\ addMediaItemAt([type |-> "quiz",
                       name |-> quizData.title,
                       quiz |-> Spread(quizData, [id |-> GenerateId(now, r1)])],
                      now + d, r2)
    /\ now' = now + d

addCodeProject(projectData, r1, r2, d) ==
    /\ now + d <= MaxClock
    /\ addMediaItemAt([type |-> "code-project",
                       name |-> projectData.title,
                       project |-> Spread(projectData, [id |-> GenerateId(now, r1)]),
                       viewMode |-> "overview"],
                      now + d, r2)
    /\ now' = now + d

addCodeFile(fileData, r) ==
    addMediaItem(Spread([type |-> "code-file", name |-> fileData.name], fileData), r)

QrCodeDefaults ==
    [description |-> "Scan the code", backgroundColor |-> "#FFFFFF",
     scanCount |-> 0, qrOptions |-> EmptyObject]

addQrCode(qrCodeData, r) ==
    addMediaItem(Spread(Spread([type |-> "qr-code", name |-> qrCodeData.title], QrCodeDefaults),
                        qrCodeData), r)

-----------------------------------------------------------------------------
(* Presentation.addCsv and the string functions it uses.                   *)

\* the position of the first occurrence of the character sep in s, 0 if none
IndexOf(s, sep) ==
    IF \E k \in 1..Len(s) : SubSeq(s, k, k) = sep
    THEN CHOOSE k \in 1..Len(s) :
            /\ SubSeq(s, k, k) = sep
            /\ \A k2 \in 1..(k - 1) : SubSeq(s, k2, k2) # sep
    ELSE 0

\* s.split(sep) for a one-character separator
RECURSIVE Split(_, _)
Split(s, sep) ==
    LET k == IndexOf(s, sep)
    IN  IF k = 0 THEN <<s>>
        ELSE <<SubSeq(s, 1, k - 1)>> \o Split(SubSeq(s, k + 1, Len(s)), sep)

\* the white space of the strings of the model: space, tab, line feed, carriage return
WhiteSpace == " \t\n\r"

\* s.trim()
RECURSIVE Trim(_)
Trim(s) ==
    IF s = "" THEN s
    ELSE IF CharIn(CharAt(s, 1), WhiteSpace) THEN Trim(SubSeq(s, 2, Len(s)))
    ELSE IF CharIn(CharAt(s, Len(s)), WhiteSpace) THEN Trim(SubSeq(s, 1, Len(s) - 1))
    ELSE s

DecimalDigits == "0123456789"

DigitValue(c) == (CHOOSE k \in 1..10 : SubSeq(DecimalDigits, k, k) = c) - 1

IsDigits(s) == s # "" /\ \A k \in 1..Len(s) : CharIn(CharAt(s, k), DecimalDigits)

RECURSIVE DigitsValue(_)
DigitsValue(s) ==
    IF s = "" THEN 0
    ELSE 10 * DigitsValue(SubSeq(s, 1, Len(s) - 1)) + DigitValue(CharAt(s, Len(s)))

\* Number(s) for a trimmed s, on the strings of the model: the empty string is 0,
\* an optionally signed run of decimal digits is its value, anything else is NaN.
\* (The strings of the model hold no '.', no exponent, no 0x/0o/0b prefix and no
\* "Infinity", which Number also reads.)  isNaN(Number(s)) is ~IsNumber(s).
IsNumber(s) ==
    \/ s = ""
    \/ IsDigits(s)
    \/ Len(s) > 1 /\ CharIn(CharAt(s, 1), "+-") /\ IsDigits(SubSeq(s, 2, Len(s)))

Number(s) ==
    IF s = "" THEN 0
    ELSE IF CharAt(s, 1) = "-" THEN 0 - DigitsValue(SubSeq(s, 2, Len(s)))
    ELSE IF CharAt(s, 1) = "+" THEN DigitsValue(SubSeq(s, 2, Len(s)))
    ELSE DigitsValue(s)

\* String(n) for an integer n
RECURSIVE NatToString(_)
NatToString(n) ==
    IF n < 10 THEN CharAt(DecimalDigits, n + 1)
    ELSE NatToString(n \div 10) \o CharAt(DecimalDigits, (n % 10) + 1)

NumberToString(n) == IF n < 0 THEN "-" \o NatToString(0 - n) ELSE NatToString(n)

\* String(cell) for a cell <<"number", n>> or <<"string", s>>
CellToString(cell) == IF cell[1] = "number" THEN NumberToString(cell[2]) ELSE cell[2]

\* array.join(sep) of an array of strings
RECURSIVE Join(_, _)
Join(seq, sep) ==
    IF seq = <<>> THEN ""
    ELSE IF Len(seq) = 1 THEN seq[1]
    ELSE seq[1] \o sep \o Join(Tail(seq), sep)

\* cell => { const trimmed = cell.trim(); return isNaN(Number(trimmed)) ? trimmed : Number(trimmed); }
ParseCell(cell) ==
    LET trimmed == Trim(cell)
    IN  IF ~IsNumber(trimmed) THEN <<"string", trimmed>> ELSE <<"number", Number(trimmed)>>

\* lines.filter(line => line.trim() !== '')
RECURSIVE NotBlank(_)
NotBlank(lines) ==
    IF lines = <<>> THEN <<>>
    ELSE (IF Trim(Head(lines)) # "" THEN <<Head(lines)>> ELSE <<>>) \o NotBlank(Tail(lines))

\* content.split('\n').filter(line => line.trim() !== '')
Lines(content) == NotBlank(Split(content, "\n"))

\* line.split(',').map(h => h.trim())
ParseHeader(line) ==
    LET cells == Split(line, ",")
    IN  [i \in 1..Len(cells) |-> Trim(cells[i])]

\* line.split(',').map(cell => ...)
ParseRow(line) ==
    LET cells == Split(line, ",")
    IN  [i \in 1..Len(cells) |-> ParseCell(cells[i])]

\* lines.slice(1).map(line => ...)
ParseRows(lines) == [i \in 1..(Len(lines) - 1) |-> ParseRow(lines[i + 1])]

\* row.join(',')
RowToString(row) == Join([i \in 1..Len(row) |-> CellToString(row[i])], ",")

\* [headers.join(','), ...rows.map(row => row.join(','))].join('\n')
ContentOf(headers, rows) ==
    Join(<<Join(headers, ",")>> \o [i \in 1..Len(rows) |-> RowToString(rows[i])], "\n")

\* the csv item built by addCsv after its guard
CsvItem(csvData) ==
    LET headers == IF Has(csvData, "headers") THEN csvData.headers ELSE <<>>
        rows == IF Has(csvData, "rows") THEN csvData.rows ELSE <<>>
        content == IF Has(csvData, "content") THEN csvData.content ELSE ""
        derive == content # "" /\ (~Has(csvData, "headers") \/ ~Has(csvData, "rows"))
        reconstitute == ~derive /\ Len(rows) > 0 /\ content = ""
        lines == Lines(content)
    IN  Spread([type |-> "csv",
                name |-> csvData.name,
                headers |-> IF derive
                            THEN (IF lines # <<>> THEN ParseHeader(lines[1]) ELSE <<>>)
                            ELSE headers,
                rows |-> IF derive THEN ParseRows(lines) ELSE rows,
                content |-> IF reconstitute THEN ContentOf(headers, rows) ELSE content],
               Pick(csvData, {"notes", "transition"}))

\* if (!csvData.content && !csvData.rows): an absent or empty content is falsy, an
\* absent rows is falsy, an array (even empty) is truthy
CsvRejected_UnlessHeaders(csvData) ==
    /\ ~Has(csvData, "content") \/ csvData.content = ""
    /\ ~Has(csvData, "rows")
    /\ ~Has(csvData, "headers")
CsvRejected(csvData) ==
    /\ ~Has(csvData, "content") \/ csvData.content = ""
    /\ ~Has(csvData, "rows")

CsvInputs ==
    <<[name |-> "t", content |-> "a,b\n1,x\n2,y"],
      [name |-> "spaced", content |-> " h1 , h2 \n\n 10 , -3 \n  \nfoo, 7x\n"],
      [name |-> "t"],
      [name |-> "headers only", headers |-> <<"a", "b">>],
      [name |-> "rows", headers |-> <<"a", "b">>,
       rows |-> << <<<<"number", 1>>, <<"string", "x">>>>, <<<<"number", -2>>, <<"string", "y">>>> >>],
      [name |-> "no rows", headers |-> <<"a", "b">>, rows |-> <<>>],
      [name |-> "gaps", content |-> "a,b\n1,\n ,y"],
      [name |-> "both", content |-> "a\n1", headers |-> <<"h">>, rows |-> << <<<<"string", "z">>>> >>,
       notes |-> "as given", transition |-> "slide"],
      [name |-> "empty", content |-> ""],
      [name |-> "bare rows", rows |-> << <<<<"number", 5>>, <<"number", 12>>>> >>],
      [name |-> "headers and content", content |-> "a,b\n1,2", headers |-> <<"x", "y">>]>>

\* CsvItem over the inputs of the model, computed once
CsvItemOf == [csvData \in {CsvInputs[i] : i \in 1..Len(CsvInputs)} |-> CsvItem(csvData)]

addCsv(csvData, r) ==
    IF CsvRejected(csvData)
    THEN warn("CSV item requires either content (raw string) or rows/headers.")
    ELSE addMediaItem(CsvItemOf[csvData], r)

-----------------------------------------------------------------------------
(* Presentation.toJSON.                                                    *)

\* JSON.stringify follows the reference an item holds to a slide object and writes
\* the slide object as it is at the time of the call.  Every value under the key
\* "slide" in the model is such a reference.
Serialize(item) ==
    IF Has(item, "slide") THEN Spread(item, [slide |-> slides[item.slide.ref]]) ELSE item

\* the value JSON.parse gives for the text toJSON() returns
toJSON_WithoutSources ==
    [mediaQueue |-> [i \in 1..Len(mediaQueue) |-> Serialize(mediaQueue[i])]]
toJSON ==
    [mediaQueue |-> [i \in 1..Len(mediaQueue) |-> Serialize(mediaQueue[i])],
     sources |-> sources]

\* a call of toJSON()
toJSONCall ==
    /\ returned' = <<toJSON>>
    /\ UNCHANGED <<now, slides, mediaQueue, sources, console, issued>>

-----------------------------------------------------------------------------
(* The generator harness: generateId called on its own, each call logged   *)
(* with the clock value and the random text it read.                       *)

generateIdCall(r) ==
    /\ Len(issued) < MaxIssued
    /\ issued' = Append(issued, [t |-> now, r |-> r, id |-> GenerateId(now, r)])
    /\ UNCHANGED <<now, slides, mediaQueue, sources, console, returned>>

-----------------------------------------------------------------------------
(* The initial state: a new Presentation, no Slide yet.                    *)

Init ==
    /\ now = 35
    /\ slides = <<>>
    /\ mediaQueue = <<>>
    /\ sources = <<>>
    /\ console = <<>>
    /\ issued = <<>>
    /\ returned = <<>>

-----------------------------------------------------------------------------
(* SpecId: the identifier generator under the clock and the random source. *)

\* the values of RandomTexts, in an order
IdDraws == <<"0.4fzyo82mvyr", "0.4fzyo82mvzz", "0.k3", "0">>

NextId ==
    \/ \E i \in 1..Len(IdDraws) : generateIdCall(IdDraws[i])
    \/ Tick

SpecId == Init /\ [][NextId]_vars

\* C3 as stated: every identifier is non-empty and differs from every identifier
\* assigned earlier, whatever the clock and the random source give.
C3_IdsAlwaysDistinct ==
    \A j \in 1..Len(issued) :
        /\ issued[j].id # ""
        /\ \A i \in 1..(j - 1) : issued[i].id # issued[j].id

\* C3 as amended: every identifier is non-empty, and it differs from every identifier
\* assigned earlier unless the two calls read the same clock value and random
\* values with the same first nine digits (in which case the two are equal).
C3_IdsDistinctUnlessSameReadings ==
    \A j \in 1..Len(issued) :
        /\ issued[j].id # ""
        /\ \A i \in 1..(j - 1) :
              (issued[i].id = issued[j].id)
                  <=> (/\ issued[i].t = issued[j].t
                       /\ Substr(issued[i].r, 2, 9) = Substr(issued[j].r, 2, 9))

\* three identifiers issued: two in the same millisecond from different digits, one
\* a millisecond later from the digits of the first
C3_Witness ==
    /\ Len(issued) = 3
    /\ issued[1].t = issued[2].t /\ issued[1].r # issued[2].r /\ issued[1].id # issued[2].id
    /\ issued[3].t # issued[1].t /\ issued[3].r = issued[1].r /\ issued[3].id # issued[1].id

-----------------------------------------------------------------------------
(* The random values read by the specifications below.                     *)

\* One value: in these specifications two identifiers differ by the clock alone
\* (SpecId is where the random source varies).
Draws == <<"0.4fzyo82mvyr">>

-----------------------------------------------------------------------------
(* SpecYouTube: addYouTube over urls of every recognized shape and urls of *)
(* none, with inputs of the declared shape {name, url, notes?,             *)
(* transition?}.                                                           *)

NextYouTube ==
    \/ FocusRoom /\ \E i \in 1..Len(YouTubeInputs), j \in 1..Len(Draws) :
                        addYouTube(YouTubeInputs[i], Draws[j])
    \/ Tick

SpecYouTube == Init /\ [][NextYouTube]_vars

\* The recognized shapes, as the claims word them: one of youtube.com/watch?v=,
\* youtube.com/embed/, youtube.com/v/ and youtu.be/, followed by eleven characters
\* of letters, digits, '_' and '-'.
C_Shapes == <<"youtube.com/watch?v=", "youtube.com/embed/", "youtube.com/v/", "youtu.be/">>

C_IdCharacters == "ABCDEFGHIJKLMNOPQRSTUVWXYZabcdefghijklmnopqrstuvwxyz0123456789-_"

\* the shape k stands at position p of url and eleven id characters follow it
C_ShapeAt(url, p, k) ==
    LET q == p + Len(C_Shapes[k])
    IN  /\ q + 10 <= Len(url)
        /\ SubSeq(url, p, q - 1) = C_Shapes[k]
        /\ \A c \in q..(q + 10) : \E a \in 1..Len(C_IdCharacters) :
                SubSeq(C_IdCharacters, a, a) = SubSeq(url, c, c)

C_Recognized(url) == \E p \in 1..Len(url), k \in 1..Len(C_Shapes) : C_ShapeAt(url, p, k)

\* the first eleven characters after the first recognized shape of url
C_VideoId(url) ==
    LET p == CHOOSE p \in 1..Len(url) :
                /\ \E k \in 1..Len(C_Shapes) : C_ShapeAt(url, p, k)
                /\ \A p2 \in 1..(p - 1) : \A k \in 1..Len(C_Shapes) : ~C_ShapeAt(url, p2, k)
        k == CHOOSE k \in 1..Len(C_Shapes) : C_ShapeAt(url, p, k)
        q == p + Len(C_Shapes[k])
    IN  SubSeq(url, q, q + 10)

\* the two, evaluated once for the urls of the model
C_RecognizedUrls == {url \in YouTubeUrls : C_Recognized(url)}

C_VideoIdOf == [url \in C_RecognizedUrls |-> C_VideoId(url)]

\* C4: addYouTube with a url of no recognized shape leaves the media queue, the
\* source list and the serialized document as they were.
C4_UnrecognizedUrlIsDropped ==
    [][\A i \in 1..Len(YouTubeInputs), j \in 1..Len(Draws) :
          (YouTubeInputs[i].url \notin C_RecognizedUrls /\ addYouTube(YouTubeInputs[i], Draws[j]))
              => /\ mediaQueue' = mediaQueue
                 /\ sources' = sources
                 /\ toJSON' = toJSON]_vars

\* a url of no recognized shape was given (its diagnostic is on the console) while
\* the queue held an item
C4_Witness ==
    /\ Len(mediaQueue) >= 1
    /\ \E w \in 1..Len(console) :
          console[w] = "Invalid YouTube URL provided, skipping: https://youtu.be/dQw4w9WgXc?t=1"

\* C5: addYouTube with a url of a recognized shape appends exactly one item, of
\* type youtube, whose embedUrl is the nocookie embed address of the first eleven
\* id characters after the shape and whose url is the caller's url.
C5_RecognizedUrlIsEmbedded ==
    [][\A i \in 1..Len(YouTubeInputs), j \in 1..Len(Draws) :
          (YouTubeInputs[i].url \in C_RecognizedUrls /\ addYouTube(YouTubeInputs[i], Draws[j]))
              => /\ Len(mediaQueue') = Len(mediaQueue) + 1
                 /\ SubSeq(mediaQueue', 1, Len(mediaQueue)) = mediaQueue
                 /\ LET item == mediaQueue'[Len(mediaQueue')]
                    IN  /\ item.type = "youtube"
                        /\ item.url = YouTubeInputs[i].url
                        /\ item.embedUrl = "https://www.youtube-nocookie.com/embed/"
                                               \o C_VideoIdOf[YouTubeInputs[i].url]]_vars

\* the queue holds the item of the watch url of the documentation and the item of a
\* url with more than eleven id characters, each with its embed address
C5_Witness ==
    /\ \E q \in 1..Len(mediaQueue) :
          /\ mediaQueue[q].url = "https://www.youtube.com/watch?v=dQw4w9WgXcQ"
          /\ mediaQueue[q].embedUrl = "https://www.youtube-nocookie.com/embed/dQw4w9WgXcQ"
    /\ \E q \in 1..Len(mediaQueue) :
          /\ mediaQueue[q].url = "www.youtube.com/v/dQw4w9WgXcQ_extra"
          /\ mediaQueue[q].embedUrl = "https://www.youtube-nocookie.com/embed/dQw4w9WgXcQ"

-----------------------------------------------------------------------------
(* SpecCsv: addCsv over inputs with content, with rows, with both and with *)
(* neither.                                                                *)

NextCsv ==
    \/ FocusRoom /\ \E i \in 1..Len(CsvInputs), j \in 1..Len(Draws) :
                        addCsv(CsvInputs[i], Draws[j])
    \/ Tick

SpecCsv == Init /\ [][NextCsv]_vars

\* C6: addCsv called with neither content nor rows, with or without headers, leaves
\* the media queue, the source list and the serialized document as they were.
C6_NoContentNoRowsIsDropped ==
    [][\A i \in 1..Len(CsvInputs), j \in 1..Len(Draws) :
          (/\ ~Has(CsvInputs[i], "content")
           /\ ~Has(CsvInputs[i], "rows")
           /\ addCsv(CsvInputs[i], Draws[j]))
              => /\ mediaQueue' = mediaQueue
                 /\ sources' = sources
                 /\ toJSON' = toJSON]_vars

\* the diagnostic of addCsv is on the console and the queue holds an item
C6_Witness ==
    /\ Len(mediaQueue) >= 1
    /\ \E w \in 1..Len(console) :
          console[w] = "CSV item requires either content (raw string) or rows/headers."

\* What C7 says of the inputs of CsvInputs that give content and neither headers nor
\* rows: the headers and the rows to be queued (a cell that is empty or blank does
\* not parse as a number and stays the trimmed string).
C7_Expected ==
    [i \in {1, 2, 7} |->
        CASE i = 1 -> [headers |-> <<"a", "b">>,
                       rows |-> << <<<<"number", 1>>, <<"string", "x">>>>,
                                   <<<<"number", 2>>, <<"string", "y">>>> >>]
          [] i = 2 -> [headers |-> <<"h1", "h2">>,
                       rows |-> << <<<<"number", 10>>, <<"number", -3>>>>,
                                   <<<<"string", "foo">>, <<"string", "7x">>>> >>]
          [] i = 7 -> [headers |-> <<"a", "b">>,
                       rows |-> << <<<<"number", 1>>, <<"string", "">>>>,
                                   <<<<"string", "">>, <<"string", "y">>>> >>]]

\* C7: addCsv with content and neither headers nor rows queues one csv item with
\* the headers of the first non-blank line, the rows of the other non-blank lines,
\* each cell a number when its trimmed text parses as one and the trimmed string
\* otherwise, and the content as given.
C7_ContentIsParsed ==
    [][\A i \in DOMAIN C7_Expected, j \in 1..Len(Draws) :
          addCsv(CsvInputs[i], Draws[j])
              => /\ Len(mediaQueue') = Len(mediaQueue) + 1
                 /\ LET item == mediaQueue'[Len(mediaQueue')]
                    IN  /\ item.type = "csv"
                        /\ item.headers = C7_Expected[i].headers
                        /\ item.rows = C7_Expected[i].rows
                        /\ item.content = CsvInputs[i].content]_vars

\* What C8 says of the inputs of CsvInputs that give rows and no content: the content
\* to be queued.
C8_Expected ==
    [i \in {5, 6, 10} |->
        CASE i = 5 -> "a,b\n1,x\n-2,y"
          [] i = 6 -> "a,b"
          [] i = 10 -> "\n5,12"]

\* C8: addCsv with rows and no content queues one csv item whose content is the
\* headers joined by commas, then each row joined by commas, joined by newlines,
\* for every rows given, an empty list included.
C8_ContentIsReconstituted ==
    [][\A i \in DOMAIN C8_Expected, j \in 1..Len(Draws) :
          addCsv(CsvInputs[i], Draws[j])
              => /\ Len(mediaQueue') = Len(mediaQueue) + 1
                 /\ LET item == mediaQueue'[Len(mediaQueue')]
                    IN  /\ item.type = "csv"
                        /\ item.content = C8_Expected[i]]_vars

-----------------------------------------------------------------------------
(* SpecSlide: a Slide built element by element.  The inputs leave some     *)
(* fields to the defaults, override others, and carry id and type keys as  *)
(* a plain JavaScript caller may.                                          *)

SlideArgs == <<[title |-> "Title Slide"], [title |-> "Agenda", backgroundColor |-> "#5B8E7D"]>>

TextInputs ==
    <<EmptyObject,
      [content |-> "Welcome to Visually Script!", fontSize |-> 60, color |-> "#FFFFFF",
       fontFamily |-> "Belleza", x |-> 150, y |-> 200, width |-> 700, height |-> 100,
       textAlign |-> "center"],
      [animation |-> "bounce", id |-> "caller-id", type |-> "image"]>>

ImageInputs ==
    <<[src |-> "https://picsum.photos/seed/1/1280/720", alt |-> "landscape", height |-> 720,
       id |-> "caller-id", type |-> "text"]>>

StickerInputs ==
    <<[content |-> "*", x |-> 850, y |-> 50],
      [content |-> "!", x |-> 5, y |-> 6, size |-> 80, rotation |-> 15,
       id |-> "caller-id", type |-> "text"]>>

MathInputs == <<[content |-> "a^2 + b^2 = c^2", fontSize |-> 32, id |-> "caller-id", type |-> "text"]>>

ShapeInputs ==
    <<[shape |-> "arrow", strokeWidth |-> 4, fillColor |-> "#FF0000",
       id |-> "caller-id", type |-> "line"]>>

CharacterInputs ==
    <<EmptyObject,
      [character |-> "char2", y |-> 300,
       actions |-> <<[id |-> "a1", type |-> "wait", duration |-> 2]>>,
       id |-> "caller-id", type |-> "sticker"]>>

NextSlide ==
    \/ FocusRoom /\ \E i \in 1..Len(SlideArgs), j \in 1..Len(Draws) :
                        NewSlide(SlideArgs[i], Draws[j])
    \/ FocusRoom /\ \E h \in 1..Len(slides), j \in 1..Len(Draws) :
          \/ \E i \in 1..Len(TextInputs) : addText(h, TextInputs[i], Draws[j])
          \/ \E i \in 1..Len(ImageInputs) : Slide_addImage(h, ImageInputs[i], Draws[j])
          \/ \E i \in 1..Len(StickerInputs) : addSticker(h, StickerInputs[i], Draws[j])
          \/ \E i \in 1..Len(MathInputs) : addMath(h, MathInputs[i], Draws[j])
          \/ \E i \in 1..Len(ShapeInputs) : addShape(h, ShapeInputs[i], Draws[j])
          \/ \E i \in 1..Len(CharacterInputs), j2 \in 1..Len(Draws), d \in 0..1 :
                addCharacter(h, CharacterInputs[i], Draws[j], Draws[j2], d)
    \/ Tick

SpecSlide == Init /\ [][NextSlide]_vars

\* The defaults table of the claim, for the operations that merge the caller's
\* input over defaults.
C9_Table ==
    [text |-> [content |-> "New Text", x |-> 10, y |-> 10, width |-> 300, height |-> 50,
               fontSize |-> 24, color |-> "#000000", fontFamily |-> "Alegreya",
               animation |-> "none"],
     image |-> [src |-> "https://placehold.co/300x200.png",
                x |-> 10, y |-> 10, width |-> 300, height |-> 200],
     math |-> [content |-> "E = mc^2", x |-> 10, y |-> 10, width |-> 200, height |-> 60,
               fontSize |-> 24, color |-> "#000000"],
     shape |-> [shape |-> "rectangle", x |-> 10, y |-> 10, width |-> 150, height |-> 100,
                strokeColor |-> "#000000", strokeWidth |-> 2, fillColor |-> "transparent"],
     gamification |-> [character |-> "char1", x |-> 50, y |-> 350, width |-> 150, height |-> 200]]

\* the element appended to slide h by the step
C_NewElement(h) == slides'[h].elements[Len(slides'[h].elements)]

\* the step appended exactly one element to slide h
C_OneAppended(h) ==
    /\ Len(slides'[h].elements) = Len(slides[h].elements) + 1
    /\ SubSeq(slides'[h].elements, 1, Len(slides[h].elements)) = slides[h].elements

\* element e has the table's value in every field of the table that props does not
\* give, and the caller's value in every field (other than id and type) props gives
C9_Merged(e, table, props) ==
    /\ \A k \in (DOMAIN table) \ (DOMAIN props) : Has(e, k) /\ e[k] = table[k]
    /\ \A k \in (DOMAIN props) \ {"id", "type"} : Has(e, k) /\ e[k] = props[k]

\* C9: in the element each element operation appends, every default field the
\* caller's input does not override has the value of the defaults table (the
\* character's default being one text action "Hello!", the sticker's size 100
\* copied into width, height and fontSize and its rotation 0), and every field the
\* caller supplies replaces the default.
C9_DefaultsAndOverrides ==
    [][\A h \in 1..Len(slides), j \in 1..Len(Draws) :
          /\ \A i \in 1..Len(TextInputs) :
                addText(h, TextInputs[i], Draws[j])
                    => C_OneAppended(h) /\ C9_Merged(C_NewElement(h), C9_Table.text, TextInputs[i])
          /\ \A i \in 1..Len(ImageInputs) :
                Slide_addImage(h, ImageInputs[i], Draws[j])
                    => C_OneAppended(h) /\ C9_Merged(C_NewElement(h), C9_Table.image, ImageInputs[i])
          /\ \A i \in 1..Len(MathInputs) :
                addMath(h, MathInputs[i], Draws[j])
                    => C_OneAppended(h) /\ C9_Merged(C_NewElement(h), C9_Table.math, MathInputs[i])
          /\ \A i \in 1..Len(ShapeInputs) :
                addShape(h, ShapeInputs[i], Draws[j])
                    => C_OneAppended(h) /\ C9_Merged(C_NewElement(h), C9_Table.shape, ShapeInputs[i])
          /\ \A i \in 1..Len(CharacterInputs), j2 \in 1..Len(Draws), d \in 0..1 :
                addCharacter(h, CharacterInputs[i], Draws[j], Draws[j2], d)
                    => /\ C_OneAppended(h)
                       /\ C9_Merged(C_NewElement(h), C9_Table.gamification, CharacterInputs[i])
                       /\ ~Has(CharacterInputs[i], "actions")
                             => /\ Len(C_NewElement(h).actions) = 1
                                /\ C_NewElement(h).actions[1].type = "text"
                                /\ C_NewElement(h).actions[1].text = "Hello!"
          /\ \A i \in 1..Len(StickerInputs) :
                addSticker(h, StickerInputs[i], Draws[j])
                    => LET p == StickerInputs[i]
                           e == C_NewElement(h)
                           size == IF Has(p, "size") THEN p.size ELSE 100
                       IN  /\ C_OneAppended(h)
                           /\ e.content = p.content /\ e.x = p.x /\ e.y = p.y
                           /\ e.width = size /\ e.height = size /\ e.fontSize = size
                           /\ e.rotation = (IF Has(p, "rotation") THEN p.rotation ELSE 0)]_vars

\* a slide holds a text element built from the empty input, all defaults, and then a
\* sticker of size 80
C9_Witness ==
    \E h \in 1..Len(slides) :
        /\ Len(slides[h].elements) = 2
        /\ slides[h].elements[1].type = "text"
        /\ slides[h].elements[1].content = "New Text"
        /\ slides[h].elements[1].fontFamily = "Alegreya"
        /\ slides[h].elements[2].type = "sticker"
        /\ slides[h].elements[2].fontSize = 80
        /\ slides[h].elements[2].width = 80

\* the type tag of each element operation
C10_Identified(h, tag, t, r, props) ==
    /\ C_OneAppended(h)
    /\ C_NewElement(h).type = tag
    /\ C_NewElement(h).id = GenerateId(t, r)
    /\ Has(props, "id") => C_NewElement(h).id # props.id

\* C10: the element each element operation appends has the operation's own type
\* tag and the identifier the builder generated in the call, whatever id and type
\* keys the caller's input carries.
C10_IdAndTypeFromBuilder ==
    [][\A h \in 1..Len(slides), j \in 1..Len(Draws) :
          /\ \A i \in 1..Len(TextInputs) :
                addText(h, TextInputs[i], Draws[j])
                    => C10_Identified(h, "text", now, Draws[j], TextInputs[i])
          /\ \A i \in 1..Len(ImageInputs) :
                Slide_addImage(h, ImageInputs[i], Draws[j])
                    => C10_Identified(h, "image", now, Draws[j], ImageInputs[i])
          /\ \A i \in 1..Len(MathInputs) :
                addMath(h, MathInputs[i], Draws[j])
                    => C10_Identified(h, "math", now, Draws[j], MathInputs[i])
          /\ \A i \in 1..Len(ShapeInputs) :
                addShape(h, ShapeInputs[i], Draws[j])
                    => C10_Identified(h, "shape", now, Draws[j], ShapeInputs[i])
          /\ \A i \in 1..Len(StickerInputs) :
                addSticker(h, StickerInputs[i], Draws[j])
                    => C10_Identified(h, "sticker", now, Draws[j], StickerInputs[i])
          /\ \A i \in 1..Len(CharacterInputs), j2 \in 1..Len(Draws), d \in 0..1 :
                addCharacter(h, CharacterInputs[i], Draws[j], Draws[j2], d)
                    => C10_Identified(h, "gamification", now + d, Draws[j2], CharacterInputs[i])]_vars

\* a slide holds the text element and the character built from inputs that carry
\* id and type keys
C10_Witness ==
    \E h \in 1..Len(slides) :
        /\ Len(slides[h].elements) = 2
        /\ slides[h].elements[1].type = "text"
        /\ slides[h].elements[1].animation = "bounce"
        /\ slides[h].elements[1].id # "caller-id"
        /\ slides[h].elements[2].type = "gamification"
        /\ slides[h].elements[2].character = "char2"
        /\ slides[h].elements[2].id # "caller-id"

-----------------------------------------------------------------------------
(* Spec: a script that uses every operation of Presentation and of Slide.  *)

MediaItemInputs ==
    <<[type |-> "custom", name |-> "Custom", payload |-> 7],
      [type |-> "image", name |-> "Own id", id |-> "caller-id", transition |-> "none"]>>

PdfInputs ==
    <<[name |-> "Deck", dataUrl |-> "data:application/pdf;base64,AAAA"],
      [name |-> "Typed", dataUrl |-> "deck.pdf", type |-> "custom", transition |-> "slide"]>>

PresentationImageInputs ==
    <<[name |-> "A beautiful landscape", dataUrl |-> "https://picsum.photos/seed/1/1280/720"]>>

VideoInputs == <<[name |-> "Clip", dataUrl |-> "clip.mp4", notes |-> "intro"]>>

OfficeFileInputs == <<[name |-> "Sheet"]>>

UrlInputs == <<[name |-> "Site", url |-> "https://example.org", transition |-> "zoom"]>>

SourceInputs ==
    <<[title |-> "Visually Script Documentation",
       url |-> "https://github.com/your-repo/visually-script",
       notes |-> "The official documentation."]>>

QuizInputs ==
    <<[title |-> "Pop Quiz!",
       questions |-> <<[type |-> "multiple-choice", questionText |-> "Is scripting cool?",
                        timer |-> 15,
                        options |-> <<[text |-> "Yes!", isCorrect |-> TRUE],
                                      [text |-> "Absolutely!", isCorrect |-> TRUE]>>]>>]>>

CodeProjectInputs ==
    <<[title |-> "Site",
       files |-> <<[id |-> "f1", name |-> "index.html", language |-> "html", content |-> "<p>hi</p>"]>>]>>

CodeFileInputs == <<[name |-> "main.py", language |-> "python", content |-> "print(1)"]>>

QrCodeInputs ==
    <<[title |-> "Scan Me!", url |-> "https://github.com/your-repo/visually-script",
       description |-> "Learn more about Visually Script.",
       qrOptions |-> [dotsOptions |-> [color |-> "#5B8E7D", type |-> "rounded"]]]>>

BackgroundColors == <<"#5B8E7D">>

BackgroundImageUrls == <<"https://picsum.photos/seed/2/1280/720">>

BorderInputs == <<[style |-> "ants"], [style |-> "solid", color |-> "#FF0000", width |-> 4]>>

\* the inputs of the script among YouTubeInputs and CsvInputs: one accepted and one
\* rejected of each
ScriptYouTube == {1, 7}

ScriptCsv == {1, 3}

\* a Slide is constructed or given an element
SlideBuild(r) ==
    \/ \E i \in 1..Len(SlideArgs) : NewSlide(SlideArgs[i], r)
    \/ \E h \in 1..Len(slides) :
          \/ addText(h, TextInputs[2], r)
          \/ Slide_addImage(h, ImageInputs[1], r)
          \/ addSticker(h, StickerInputs[1], r)
          \/ addMath(h, MathInputs[1], r)
          \/ addShape(h, ShapeInputs[1], r)
          \/ \E d \in 0..1 : addCharacter(h, CharacterInputs[1], r, r, d)

\* a setter of a Slide is called
SlideSet ==
    \E h \in 1..Len(slides) :
        \/ \E i \in 1..Len(BackgroundColors) : setBackgroundColor(h, BackgroundColors[i])
        \/ \E i \in 1..Len(BackgroundImageUrls) : setBackgroundImageUrl(h, BackgroundImageUrls[i])
        \/ \E i \in 1..Len(BorderInputs) : setBorder(h, BorderInputs[i])

\* an operation of the Presentation is called
PresentationStep(r) ==
    \/ \E i \in 1..Len(MediaItemInputs) : addMediaItem(MediaItemInputs[i], r)
    \/ \E i \in 1..Len(PdfInputs) : addPdf(PdfInputs[i], r)
    \/ \E i \in 1..Len(PresentationImageInputs) : Presentation_addImage(PresentationImageInputs[i], r)
    \/ \E i \in ScriptYouTube : addYouTube(YouTubeInputs[i], r)
    \/ \E i \in 1..Len(VideoInputs) : addVideo(VideoInputs[i], r)
    \/ \E i \in 1..Len(OfficeFileInputs) : addOfficeFile(OfficeFileInputs[i], r)
    \/ \E i \in 1..Len(UrlInputs) : addUrl(UrlInputs[i], r)
    \/ \E h \in 1..Len(slides) : addSlide(h, r)
    \/ \E i \in 1..Len(SourceInputs) : addSource(SourceInputs[i], r)
    \/ \E i \in 1..Len(QuizInputs), d \in 0..1 : addQuiz(QuizInputs[i], r, r, d)
    \/ \E i \in 1..Len(CodeProjectInputs), d \in 0..1 : addCodeProject(CodeProjectInputs[i], r, r, d)
    \/ \E i \in 1..Len(CodeFileInputs) : addCodeFile(CodeFileInputs[i], r)
    \/ \E i \in ScriptCsv : addCsv(CsvInputs[i], r)
    \/ \E i \in 1..Len(QrCodeInputs) : addQrCode(QrCodeInputs[i], r)

\* the script may build one more object
ScriptRoom == Objects < MaxScript

\* In a script the clock advances only inside the calls that read it twice
\* (addCharacter, addQuiz, addCodeProject); the setters build no object.
Next ==
    \/ ScriptRoom /\ \E j \in 1..Len(Draws) : SlideBuild(Draws[j])
    \/ ScriptRoom /\ \E j \in 1..Len(Draws) : PresentationStep(Draws[j])
    \/ SlideSet

Spec == Init /\ [][Next]_vars

\* C1 as stated: a call on a Slide (a step that leaves the media queue and the source
\* list alone) leaves the document toJSON() gives as it was, also when the slide
\* has been queued by addSlide.
C1_QueuedSlideIsACopy ==
    [][(mediaQueue' = mediaQueue /\ sources' = sources) => toJSON' = toJSON]_vars

\* C2: a step keeps every entry of the media queue in its place and adds at most one
\* entry, at the end, which carries the identifier generated in the step; a call of
\* an add operation of the Presentation that is accepted (it writes no diagnostic
\* and is not addSource; it leaves the Slides alone, as every operation of the
\* Presentation does) lengthens the queue by one.
C2_QueueIsAppendOnly ==
    [][/\ Len(mediaQueue') \in {Len(mediaQueue), Len(mediaQueue) + 1}
       /\ SubSeq(mediaQueue', 1, Len(mediaQueue)) = mediaQueue
       /\ Len(mediaQueue') = Len(mediaQueue) + 1
             => \E j \in 1..Len(Draws) :
                   mediaQueue'[Len(mediaQueue')].id = GenerateId(now', Draws[j])
       /\ \A j \in 1..Len(Draws) :
             (/\ slides' = slides /\ console' = console /\ sources' = sources
              /\ PresentationStep(Draws[j]))
                 => Len(mediaQueue') = Len(mediaQueue) + 1]_vars

\* the queue holds the item of addYouTube and, after it, the item of addCsv
C2_Witness ==
    /\ Len(mediaQueue) = 2
    /\ mediaQueue[1].type = "youtube"
    /\ mediaQueue[2].type = "csv"

-----------------------------------------------------------------------------
(* SpecDeck: Slides are built, set and queued with addSlide.               *)

\* an element operation is called on slide h
ElementCall(h) ==
    \E j \in 1..Len(Draws) :
        \/ addText(h, TextInputs[2], Draws[j])
        \/ Slide_addImage(h, ImageInputs[1], Draws[j])
        \/ addSticker(h, StickerInputs[1], Draws[j])
        \/ addMath(h, MathInputs[1], Draws[j])
        \/ addShape(h, ShapeInputs[1], Draws[j])
        \/ \E d \in 0..1 : addCharacter(h, CharacterInputs[1], Draws[j], Draws[j], d)

\* a setter is called on slide h
SetterCall(h) ==
    \/ \E i \in 1..Len(BackgroundColors) : setBackgroundColor(h, BackgroundColors[i])
    \/ \E i \in 1..Len(BackgroundImageUrls) : setBackgroundImageUrl(h, BackgroundImageUrls[i])
    \/ \E i \in 1..Len(BorderInputs) : setBorder(h, BorderInputs[i])

\* the script builds one Slide
NextDeck ==
    \/ slides = <<>> /\ \E j \in 1..Len(Draws) : NewSlide(SlideArgs[1], Draws[j])
    \/ \E h \in 1..Len(slides) : ElementCall(h)
    \/ \E h \in 1..Len(slides) : SetterCall(h)
    \/ \E h \in 1..Len(slides), j \in 1..Len(Draws) : addSlide(h, Draws[j])

SpecDeck == Init /\ [][NextDeck]_vars

\* sequence new is sequence old, or old with one entry after it
C11_SameOrOneMore(old, new) ==
    \/ new = old
    \/ Len(new) = Len(old) + 1 /\ SubSeq(new, 1, Len(old)) = old

\* C11: a call of an element operation puts exactly one element at the end of the
\* slide's element sequence, a setter leaves the sequence as it is, and no step
\* does anything else to it; the item addSlide queues lists in the document the
\* elements of the slide at the call, and what it lists later is that sequence
\* with the later elements after it, one per call.
C11_ElementOrderIsCallOrder ==
    [][/\ \A h \in 1..Len(slides) :
             /\ C11_SameOrOneMore(slides[h].elements, slides'[h].elements)
             /\ ElementCall(h) => C_OneAppended(h)
             /\ SetterCall(h) => slides'[h].elements = slides[h].elements
             /\ \A j \in 1..Len(Draws) :
                   addSlide(h, Draws[j])
                       => toJSON'.mediaQueue[Len(mediaQueue')].slide.elements
                              = slides[h].elements
       /\ \A q \in 1..Len(mediaQueue) :
             Has(mediaQueue[q], "slide")
                 => C11_SameOrOneMore(toJSON.mediaQueue[q].slide.elements,
                                      toJSON'.mediaQueue[q].slide.elements)]_vars

\* a queued slide lists a text and then a sticker, its border set to ants
C11_Witness ==
    \E q \in 1..Len(mediaQueue) :
        /\ mediaQueue[q].type = "created-slide"
        /\ toJSON.mediaQueue[q].slide.borderStyle = "ants"
        /\ Len(toJSON.mediaQueue[q].slide.elements) = 2
        /\ toJSON.mediaQueue[q].slide.elements[1].type = "text"
        /\ toJSON.mediaQueue[q].slide.elements[2].type = "sticker"

-----------------------------------------------------------------------------
(* SpecBorder: setBorder called on Slides, with and without color and      *)
(* width, the empty color string and the width 0 included.                 *)

BorderCalls ==
    <<[style |-> "solid"],
      [style |-> "ants"],
      [style |-> "solid", color |-> "#FF0000", width |-> 4],
      [style |-> "spiders", color |-> "", width |-> 0],
      [style |-> "solid", color |-> "#00FF00"],
      [style |-> "solid", width |-> 2]>>

NextBorder ==
    \/ ScriptRoom /\ \E j \in 1..Len(Draws) : NewSlide(SlideArgs[1], Draws[j])
    \/ \E h \in 1..Len(slides), i \in 1..Len(BorderCalls) : setBorder(h, BorderCalls[i])

SpecBorder == Init /\ [][NextBorder]_vars

\* key k is in both objects with one value, or in neither
C_SameField(a, b, k) ==
    /\ Has(a, k) <=> Has(b, k)
    /\ Has(a, k) => a[k] = b[k]

\* C12 as stated: setBorder sets the style, sets the color whenever a color is
\* provided and the width whenever a width is provided, the empty color string and
\* the width 0 included, and keeps the color or width that is not provided.
C12_ProvidedBorderIsSet ==
    [][\A h \in 1..Len(slides), i \in 1..Len(BorderCalls) :
          setBorder(h, BorderCalls[i])
              => LET p == BorderCalls[i]
                     before == slides[h]
                     after == slides'[h]
                 IN  /\ after.borderStyle = p.style
                     /\ Has(p, "color")
                           => Has(after, "borderColor") /\ after.borderColor = p.color
                     /\ Has(p, "width")
                           => Has(after, "borderWidth") /\ after.borderWidth = p.width
                     /\ ~Has(p, "color") => C_SameField(before, after, "borderColor")
                     /\ ~Has(p, "width") => C_SameField(before, after, "borderWidth")]_vars

\* C13: a new slide has neither border color nor border width; a slide without a
\* border color is without one after every step that is not a setBorder call
\* providing a color, and likewise for the width; setBorder sets the style of the
\* call.  (So the fields are absent as long as no call has provided them, and the
\* style is that of the last call.)
C13_BorderFieldsStayAbsent ==
    [][/\ \A h \in 1..Len(slides') :
             h > Len(slides)
                 => ~Has(slides'[h], "borderColor") /\ ~Has(slides'[h], "borderWidth")
       /\ \A h \in 1..Len(slides) :
             /\ (/\ ~Has(slides[h], "borderColor")
                 /\ ~\E i \in 1..Len(BorderCalls) :
                        Has(BorderCalls[i], "color") /\ setBorder(h, BorderCalls[i]))
                    => ~Has(slides'[h], "borderColor")
             /\ (/\ ~Has(slides[h], "borderWidth")
                 /\ ~\E i \in 1..Len(BorderCalls) :
                        Has(BorderCalls[i], "width") /\ setBorder(h, BorderCalls[i]))
                    => ~Has(slides'[h], "borderWidth")
             /\ \A i \in 1..Len(BorderCalls) :
                   setBorder(h, BorderCalls[i]) => slides'[h].borderStyle = BorderCalls[i].style]_vars

\* a slide whose border was set to solid and a slide whose border was set to ants,
\* neither with a border color or a border width
C13_Witness ==
    /\ Len(slides) = 2
    /\ slides[1].borderStyle = "solid"
    /\ slides[2].borderStyle = "ants"
    /\ \A h \in 1..2 : ~Has(slides[h], "borderColor") /\ ~Has(slides[h], "borderWidth")

-----------------------------------------------------------------------------
(* SpecJson: toJSON() called between the operations of a script.           *)

NextJson ==
    \/ FocusRoom /\ \E j \in 1..Len(Draws) :
          \/ addPdf(PdfInputs[1], Draws[j])
          \/ addSource(SourceInputs[1], Draws[j])
          \/ NewSlide(SlideArgs[1], Draws[j])
          \/ \E h \in 1..Len(slides) : addText(h, TextInputs[2], Draws[j])
          \/ \E h \in 1..Len(slides) : addSlide(h, Draws[j])
    \/ toJSONCall
    \/ Tick

SpecJson == Init /\ [][NextJson]_vars

\* C14: a call of toJSON() leaves the media queue, the source list and the slides
\* as they are; the document it returns has exactly the keys mediaQueue and
\* sources, lists under them the current entries in their order, and is the
\* document of the state the call leaves (the one a call right after returns); a
\* call made when the last returned document is still current returns it again.
C14_ToJSONIsReadOnly ==
    [][toJSONCall
          => /\ mediaQueue' = mediaQueue /\ sources' = sources /\ slides' = slides
             /\ LET doc == returned'[1]
                IN  /\ DOMAIN doc = {"mediaQueue", "sources"}
                    /\ Len(doc.mediaQueue) = Len(mediaQueue)
                    /\ \A i \in 1..Len(mediaQueue) :
                          /\ doc.mediaQueue[i].id = mediaQueue[i].id
                          /\ doc.mediaQueue[i].type = mediaQueue[i].type
                          /\ doc.mediaQueue[i].name = mediaQueue[i].name
                          /\ Has(mediaQueue[i], "slide")
                                => doc.mediaQueue[i].slide = slides[mediaQueue[i].slide.ref]
                    /\ doc.sources = sources
                    /\ doc = toJSON'
             /\ returned = <<toJSON>> => returned' = returned]_vars

\* toJSON() has returned the document of the current state: a pdf and a queued
\* slide in the media queue
C14_Witness ==
    /\ returned = <<toJSON>>
    /\ Len(returned[1].mediaQueue) = 2
    /\ returned[1].mediaQueue[1].type = "pdf"
    /\ returned[1].mediaQueue[2].type = "created-slide"

-----------------------------------------------------------------------------
(* Claims on the items of the script (Spec).                                *)

\* the item the step put at the end of the media queue
C_NewItem == mediaQueue'[Len(mediaQueue')]

\* C15 as stated: in the item addQuiz queues, the quiz carries the identifier
\* generated for it, and every question and every answer option of the caller's
\* data carries an identifier.
C15_QuizPartsAreIdentified ==
    [][\A i \in 1..Len(QuizInputs), j \in 1..Len(Draws), d \in 0..1 :
          addQuiz(QuizInputs[i], Draws[j], Draws[j], d)
              => /\ C_NewItem.type = "quiz"
                 /\ C_NewItem.quiz.id = GenerateId(now, Draws[j])
                 /\ \A q \in 1..Len(C_NewItem.quiz.questions) :
                       LET question == C_NewItem.quiz.questions[q]
                       IN  /\ Has(question, "id")
                           /\ Has(question, "options")
                                 => \A o \in 1..Len(question.options) :
                                       Has(question.options[o], "id")]_vars

\* the item the step queued has the identifier generated in the call, not the
\* caller's, and the caller's transition when props gives one, "fade" otherwise
C16_Carries(props, r) ==
    /\ Len(mediaQueue') = Len(mediaQueue) + 1
    /\ C_NewItem.id = GenerateId(now', r)
    /\ Has(props, "id") => C_NewItem.id # props.id
    /\ C_NewItem.transition = (IF Has(props, "transition") THEN props.transition ELSE "fade")

\* C16: the item that addMediaItem or a typed wrapper queues carries the identifier
\* generated in the call, never the caller's, and the caller's transition when the
\* caller gave one, and "fade" otherwise.
C16_IdAndTransition ==
    [][Len(mediaQueue') = Len(mediaQueue) + 1
          => \A j \in 1..Len(Draws) :
                LET r == Draws[j]
                IN  /\ \A i \in 1..Len(MediaItemInputs) :
                          addMediaItem(MediaItemInputs[i], r) => C16_Carries(MediaItemInputs[i], r)
                    /\ \A i \in 1..Len(PdfInputs) :
                          addPdf(PdfInputs[i], r) => C16_Carries(PdfInputs[i], r)
                    /\ \A i \in 1..Len(PresentationImageInputs) :
                          Presentation_addImage(PresentationImageInputs[i], r)
                              => C16_Carries(PresentationImageInputs[i], r)
                    /\ \A i \in ScriptYouTube :
                          addYouTube(YouTubeInputs[i], r) => C16_Carries(YouTubeInputs[i], r)
                    /\ \A i \in 1..Len(VideoInputs) :
                          addVideo(VideoInputs[i], r) => C16_Carries(VideoInputs[i], r)
                    /\ \A i \in 1..Len(OfficeFileInputs) :
                          addOfficeFile(OfficeFileInputs[i], r) => C16_Carries(OfficeFileInputs[i], r)
                    /\ \A i \in 1..Len(UrlInputs) :
                          addUrl(UrlInputs[i], r) => C16_Carries(UrlInputs[i], r)
                    /\ \A h \in 1..Len(slides) :
                          addSlide(h, r) => C16_Carries(EmptyObject, r)
                    /\ \A i \in 1..Len(QuizInputs), d \in 0..1 :
                          addQuiz(QuizInputs[i], r, r, d) => C16_Carries(EmptyObject, r)
                    /\ \A i \in 1..Len(CodeProjectInputs), d \in 0..1 :
                          addCodeProject(CodeProjectInputs[i], r, r, d) => C16_Carries(EmptyObject, r)
                    /\ \A i \in 1..Len(CodeFileInputs) :
                          addCodeFile(CodeFileInputs[i], r) => C16_Carries(CodeFileInputs[i], r)
                    /\ \A i \in ScriptCsv :
                          addCsv(CsvInputs[i], r) => C16_Carries(CsvInputs[i], r)
                    /\ \A i \in 1..Len(QrCodeInputs) :
                          addQrCode(QrCodeInputs[i], r) => C16_Carries(QrCodeInputs[i], r)]_vars

\* the queue holds the item of an addMediaItem call that gave an id and the
\* transition none, and the item of an addPdf call that gave no transition
C16_Witness ==
    /\ Len(mediaQueue) = 2
    /\ mediaQueue[1].name = "Own id"
    /\ mediaQueue[1].id # "caller-id"
    /\ mediaQueue[1].transition = "none"
    /\ mediaQueue[2].name = "Deck"
    /\ mediaQueue[2].transition = "fade"

\* C17: addSource puts exactly one source, with the identifier generated in the
\* call, at the end of the source list and leaves the media queue as it is; no
\* other step changes the source list (every media add operation and addSlide
\* leaves it as it is).
C17_SourcesApartFromQueue ==
    [][/\ \A i \in 1..Len(SourceInputs), j \in 1..Len(Draws) :
             addSource(SourceInputs[i], Draws[j])
                 => /\ Len(sources') = Len(sources) + 1
                    /\ SubSeq(sources', 1, Len(sources)) = sources
                    /\ sources'[Len(sources')].id = GenerateId(now, Draws[j])
                    /\ sources'[Len(sources')].title = SourceInputs[i].title
                    /\ mediaQueue' = mediaQueue
       /\ sources' # sources
             => \E i \in 1..Len(SourceInputs), j \in 1..Len(Draws) :
                   addSource(SourceInputs[i], Draws[j])
       /\ mediaQueue' # mediaQueue => sources' = sources]_vars

\* a source and a media item were added: each list holds its one entry
C17_Witness ==
    /\ Len(sources) = 1
    /\ sources[1].title = "Visually Script Documentation"
    /\ Len(mediaQueue) = 1

-----------------------------------------------------------------------------
(* Claims on the cells addCsv derives (SpecCsv).                           *)

\* C18 as stated: in the rows addCsv derives from content, a cell whose text is
\* empty or only whitespace is the empty string, never the number 0.
C18_EmptyCellStaysEmpty ==
    [][\A i \in DOMAIN C7_Expected, j \in 1..Len(Draws) :
          addCsv(CsvInputs[i], Draws[j])
              => LET lines == Lines(CsvInputs[i].content)
                     rows == mediaQueue'[Len(mediaQueue')].rows
                 IN  \A l \in 2..Len(lines) :
                        LET cells == Split(lines[l], ",")
                        IN  \A c \in 1..Len(cells) :
                               Trim(cells[c]) = "" => rows[l - 1][c] = <<"string", "">>]_vars

-----------------------------------------------------------------------------
(* Claims on the type tag of the items of the script (Spec).               *)

\* C19 as stated: the item a typed wrapper queues has the wrapper's kind as its
\* type, whatever keys the caller's input carries, a type key included.
C19_TypeIsWrappersKind ==
    [][Len(mediaQueue') = Len(mediaQueue) + 1
          => \A j \in 1..Len(Draws) :
                LET r == Draws[j]
                IN  /\ \A i \in 1..Len(PdfInputs) :
                          addPdf(PdfInputs[i], r) => C_NewItem.type = "pdf"
                    /\ \A i \in 1..Len(PresentationImageInputs) :
                          Presentation_addImage(PresentationImageInputs[i], r)
                              => C_NewItem.type = "image"
                    /\ \A i \in ScriptYouTube :
                          addYouTube(YouTubeInputs[i], r) => C_NewItem.type = "youtube"
                    /\ \A i \in 1..Len(VideoInputs) :
                          addVideo(VideoInputs[i], r) => C_NewItem.type = "video"
                    /\ \A i \in 1..Len(OfficeFileInputs) :
                          addOfficeFile(OfficeFileInputs[i], r) => C_NewItem.type = "office"
                    /\ \A i \in 1..Len(UrlInputs) :
                          addUrl(UrlInputs[i], r) => C_NewItem.type = "url"
                    /\ \A i \in 1..Len(CodeFileInputs) :
                          addCodeFile(CodeFileInputs[i], r) => C_NewItem.type = "code-file"
                    /\ \A i \in ScriptCsv :
                          addCsv(CsvInputs[i], r) => C_NewItem.type = "csv"
                    /\ \A i \in 1..Len(QuizInputs), d \in 0..1 :
                          addQuiz(QuizInputs[i], r, r, d) => C_NewItem.type = "quiz"
                    /\ \A i \in 1..Len(CodeProjectInputs), d \in 0..1 :
                          addCodeProject(CodeProjectInputs[i], r, r, d)
                              => C_NewItem.type = "code-project"
                    /\ \A i \in 1..Len(QrCodeInputs) :
                          addQrCode(QrCodeInputs[i], r) => C_NewItem.type = "qr-code"
                    /\ \A h \in 1..Len(slides) :
                          addSlide(h, r) => C_NewItem.type = "created-slide"]_vars

-----------------------------------------------------------------------------
(* SpecTwice: one Slide, given to addSlide more than once.                 *)

NextTwice ==
    \/ slides = <<>> /\ \E j \in 1..Len(Draws) : NewSlide(SlideArgs[1], Draws[j])
    \/ \E h \in 1..Len(slides), j \in 1..Len(Draws) : addText(h, TextInputs[2], Draws[j])
    \/ \E h \in 1..Len(slides), i \in 1..Len(IdDraws) : addSlide(h, IdDraws[i])
    \/ Tick

SpecTwice == Init /\ [][NextTwice]_vars

\* the earlier items of the queue that hold slide h
C20_EarlierItemsOf(h) ==
    {q \in 1..Len(mediaQueue) : Has(mediaQueue[q], "slide") /\ mediaQueue[q].slide.ref = h}

\* the item the addSlide step queued and the earlier item q list, in the document,
\* a slide with one slide identifier and the same element identifiers
C20_SameSlide(q) ==
    LET earlier == toJSON'.mediaQueue[q].slide
        new == toJSON'.mediaQueue[Len(mediaQueue')].slide
    IN  /\ new.id = earlier.id
        /\ Len(new.elements) = Len(earlier.elements)
        /\ \A e \in 1..Len(new.elements) : new.elements[e].id = earlier.elements[e].id

\* C20 as stated: addSlide on a Slide that is already queued queues one more
\* created-slide item, whose item identifier is different from the earlier item's
\* and whose slide has the same slide identifier and element identifiers.
C20_TwiceQueuedDistinctItems ==
    [][\A h \in 1..Len(slides), i \in 1..Len(IdDraws) :
          addSlide(h, IdDraws[i])
              => /\ Len(mediaQueue') = Len(mediaQueue) + 1
                 /\ C_NewItem.type = "created-slide"
                 /\ \A q \in C20_EarlierItemsOf(h) :
                       /\ C_NewItem.id # mediaQueue[q].id
                       /\ C20_SameSlide(q)]_vars

\* C20, amended: the same, the item identifiers being different unless the two
\* generateId calls read the same clock value and random values with the same
\* first nine digits.
C20_TwiceQueuedSameSlide ==
    [][\A h \in 1..Len(slides), i \in 1..Len(IdDraws) :
          addSlide(h, IdDraws[i])
              => /\ Len(mediaQueue') = Len(mediaQueue) + 1
                 /\ C_NewItem.type = "created-slide"
                 /\ \A q \in C20_EarlierItemsOf(h) :
                       /\ \A t \in 35..MaxClock, r \in RandomTexts :
                             (/\ mediaQueue[q].id = GenerateId(t, r)
                              /\ t # now \/ Substr(r, 2, 9) # Substr(IdDraws[i], 2, 9))
                                 => C_NewItem.id # mediaQueue[q].id
                       /\ C20_SameSlide(q)]_vars

\* the queue holds two items with different identifiers for one slide with an
\* element
C20_Witness ==
    /\ Len(mediaQueue) = 2
    /\ mediaQueue[1].id # mediaQueue[2].id
    /\ mediaQueue[1].slide = mediaQueue[2].slide
    /\ toJSON.mediaQueue[1].slide.id = toJSON.mediaQueue[2].slide.id
    /\ Len(toJSON.mediaQueue[1].slide.elements) = 1
    /\ toJSON.mediaQueue[1].slide.elements[1].id = toJSON.mediaQueue[2].slide.elements[1].id

====
